---------------------------- MODULE Spec2Model ----------------------------
(***************************************************************************)
(* BLE scan-log merging: the two script variants of the repository.        *)
(*                                                                         *)
(*   "flag"   src/Merging_BLEdata.py          row-preserving flag-append   *)
(*   "pivot"  src/scripts/Merging_BLEdata.py  group-and-pivot              *)
(*                                                                         *)
(* A run of main() is a chain of steps over the directory it was given:    *)
(* merge_individual_csv_files, the transformer, convert_rssi_to_binary,    *)
(* save_output, display_summary.  An uncaught exception ends the run.      *)
(*                                                                         *)
(* Conventions of the model                                                *)
(*   - a float64 is an exact fraction <<num, den>> (den > 0, lowest        *)
(*     terms); NaN is <<0, 0>>.  Rounding of binary floats is not modelled.*)
(*   - a missing text field (pandas <NA> / NaN in an object column) is NA. *)
(*   - a parsed timestamp is a record of its calendar fields; NaT is the   *)
(*     record [nat |-> TRUE].                                              *)
(*   - the column RSSI_i is the integer i; a row keeps its 25 RSSI_i cells *)
(*     in the field rssi_cols.                                             *)
(*   - an optional DataFrame is [none, columns, rows]: its column labels   *)
(*     and its rows, each a record from label to cell; None has none = TRUE*)
(***************************************************************************)
EXTENDS Integers, Sequences, FiniteSets, TLC

VARIABLES
    variant,            \* which script runs: "flag" or "pivot"
    dataset_directory,  \* os.listdir order: sequence of files
    pc,                 \* position of main()
    files_read,         \* the files pd.read_csv was called on, in call order
    df_merged,          \* main's df after step 1 (loader result)
    df,                 \* main's df after step 2 and step 3
    output_file         \* what save_output wrote (None: nothing written)

vars == <<variant, dataset_directory, pc, files_read, df_merged, df, output_file>>

---------------------------------------------------------------------------
(* Bounds of the model *)

\* longest input table of the key family (user, timestamp, MAC vary)
MaxRows == 3
\* longest input table of the timestamp family (bad and missing timestamps)
MaxTimeRows == 3
\* longest input table of the value family (signal strengths vary)
MaxValueRows == 3
\* longest input table of the representative family (MAC and power vary)
MaxFirstRows == 3
\* most files in a directory of the loader family
MaxFiles == 2

---------------------------------------------------------------------------
(* Generic helpers *)

Range(s) == {s[i] : i \in 1..Len(s)}

RECURSIVE Flatten(_)
Flatten(ss) == IF ss = <<>> THEN <<>> ELSE Head(ss) \o Flatten(Tail(ss))

\* sequences over S of length lo..hi
SeqsOf(S, lo, hi) == UNION {[1..n -> S] : n \in lo..hi}

(* float64 as exact fractions *)
NaN == <<0, 0>>
IsNaN(x) == x = NaN

Abs(n) == IF n < 0 THEN -n ELSE n

RECURSIVE Gcd(_, _)
Gcd(a, b) == IF b = 0 THEN a ELSE Gcd(b, a % b)

Frac(n, d) ==
    LET g == Gcd(Abs(n), Abs(d))
        s == IF d < 0 THEN -1 ELSE 1
    IN  <<(s * n) \div g, (s * d) \div g>>

F(n) == <<n, 1>>

FracAdd(x, y) == Frac(x[1] * y[2] + y[1] * x[2], x[2] * y[2])

RECURSIVE FracSum(_)
FracSum(xs) == IF xs = <<>> THEN F(0) ELSE FracAdd(Head(xs), FracSum(Tail(xs)))

\* pandas/numpy mean with skipna=True: NaN cells are left out; NaN when
\* nothing is left
NanMean(xs) ==
    LET present == SelectSeq(xs, LAMBDA x : ~IsNaN(x))
        total   == FracSum(present)
    IN  IF present = <<>> THEN NaN
        ELSE Frac(total[1], total[2] * Len(present))

(* missing text *)
NA == "<NA>"

(* Optional[DataFrame] *)
None == [none |-> TRUE, columns |-> <<>>, rows |-> <<>>]
DataFrame(columns, rows) == [none |-> FALSE, columns |-> columns, rows |-> rows]

---------------------------------------------------------------------------
(* The beacon registry *)

NumBeacons == 25

rssi_cols == 1..NumBeacons

BeaconMacs ==
    << "F7:7F:78:76:7E:F3", "C6:CD:5E:3D:2F:BB", "D6:F4:3A:79:74:63",
       "C9:17:55:E2:3E:0E", "CA:60:AB:EE:EC:7F", "D6:51:7F:AB:0E:29",
       "CC:54:33:F6:A7:90", "EB:20:56:87:04:5A", "EE:E7:46:DC:19:6F",
       "C8:5B:BF:37:07:A0", "D7:26:F6:A3:44:D2", "DD:83:B0:27:FD:36",
       "E5:CD:4A:36:87:06", "DC:22:B8:17:4E:B5", "EA:09:20:80:D6:44",
       "E6:99:D1:EC:C6:81", "F6:DA:97:C7:D5:28", "EA:66:A1:12:2C:F4",
       "C9:EA:57:8B:0F:80", "D6:7C:1D:2C:2A:0A", "DA:E1:70:5F:44:97",
       "DD:10:10:F6:4F:27", "E6:F3:93:A8:9E:22", "E6:60:05:1F:88:F9",
       "D4:33:FD:F4:C2:A8" >>

\* the dict MAC -> 'RSSI_i', as MAC -> i
setup_beacon_dictionary ==
    [m \in Range(BeaconMacs) |-> CHOOSE i \in rssi_cols : BeaconMacs[i] = m]

\* Series.map(dict): the dict's value, NaN for a key the dict lacks (a
\* missing MAC included).  No column is numbered 0.
NoColumn == 0
MapMac(mac_to_rssi_column, mac) ==
    IF mac \in DOMAIN mac_to_rssi_column THEN mac_to_rssi_column[mac]
    ELSE NoColumn

---------------------------------------------------------------------------
(* Timestamps *)

NaT == [nat |-> TRUE]

Instant(y, mo, d, h, mi, s, us, tz) ==
    [year |-> y, month |-> mo, day |-> d, hour |-> h, minute |-> mi,
     second |-> s, microsecond |-> us, tz |-> tz]

\* the timestamp texts of the model's inputs
T_A      == "2024-03-01T08:15:30.5"
T_B      == "2024-03-02 09:00:00.123456"
T_A_utc  == "2024-03-01T08:15:30.5Z"
T_B_utc  == "2024-03-02T09:00:00.123456Z"
T_bad    == "not-a-time"

\* what the dateutil/ISO parser behind format='mixed' reads from each text
ParsedText ==
       T_A     :> Instant(2024, 3, 1, 8, 15, 30, 500000, "")
    @@ T_B     :> Instant(2024, 3, 2, 9, 0, 0, 123456, "")
    @@ T_A_utc :> Instant(2024, 3, 1, 8, 15, 30, 500000, "UTC")
    @@ T_B_utc :> Instant(2024, 3, 2, 9, 0, 0, 123456, "UTC")

Parses(text) == text \in DOMAIN ParsedText

\* pd.to_datetime(..., format='mixed', errors='coerce') on one cell:
\* a missing cell and a text that does not parse both give NaT
to_datetime_coerce(text) == IF Parses(text) THEN ParsedText[text] ELSE NaT

\* pd.to_datetime(..., format='mixed') (errors='raise') on one cell whose
\* text is missing or parses; on any other text the call raises
to_datetime_raise(text) == IF text = NA THEN NaT ELSE ParsedText[text]
RaisesOnParse(texts) == \E i \in 1..Len(texts) : texts[i] # NA /\ ~Parses(texts[i])

\* Series.dt.tz_localize(None): drops the zone, keeps the wall-clock digits
tz_localize_none(t) == IF t = NaT THEN NaT ELSE [t EXCEPT !.tz = ""]

Pad2(n) == IF n < 10 THEN "0" \o ToString(n) ELSE ToString(n)

\* Series.dt.strftime('%Y-%m-%d'); NaN for NaT
strftime_ymd(t) ==
    IF t = NaT THEN NA
    ELSE ToString(t.year) \o "-" \o Pad2(t.month) \o "-" \o Pad2(t.day)

\* Series.dt.hour; NaN for NaT (the column is then float64)
dt_hour(t) == IF t = NaT THEN NaN ELSE F(t.hour)

TsKey(t) == <<t.year, t.month, t.day, t.hour, t.minute, t.second, t.microsecond>>

RECURSIVE LexLess(_, _)
LexLess(a, b) ==
    IF a = <<>> \/ b = <<>> THEN FALSE
    ELSE Head(a) < Head(b) \/ (Head(a) = Head(b) /\ LexLess(Tail(a), Tail(b)))

\* datetime64 order, NaT after every instant (na_position='last')
TsLess(a, b) ==
    IF a = NaT THEN FALSE
    ELSE IF b = NaT THEN TRUE
    ELSE LexLess(TsKey(a), TsKey(b))

\* order of the sort key [user_id, timestamp]
KeyLess(r, s) ==
    r.user_id < s.user_id \/ (r.user_id = s.user_id /\ TsLess(r.timestamp, s.timestamp))

---------------------------------------------------------------------------
(* Files of the dataset directory *)

\* a file name is prefix + stem + ext
FileName(prefix, stem, ext) == [prefix |-> prefix, stem |-> stem, ext |-> ext]

RawName1     == FileName("user-ble-id_", "1", ".csv")
RawName2     == FileName("user-ble-id_", "2", ".csv")
BLEdata_csv  == FileName("", "BLEdata", ".csv")
BLEdata2_csv == FileName("", "BLEdata2", ".csv")
BLEdata3_csv == FileName("", "BLEdata3", ".csv")
ScanName     == FileName("", "scan", ".csv")
TextName     == FileName("user-ble-id_", "3", ".txt")

\* str.endswith('.csv') and str.startswith('user-ble-id_') on such a name
EndsWithCsv(name) == name.ext = ".csv"
StartsWithRawPrefix(name) == name.prefix = "user-ble-id_"

\* a file: its name, whether pd.read_csv succeeds on it, and its text.  The
\* text is an optional first line of column names (header, <<>> when the
\* file has none) followed by lines of the 6 fields
\* <<pid, timestamp, column3, mac_address, rssi, column6>>
File(name, readable, lines) ==
    [name |-> name, readable |-> readable, header |-> <<>>, lines |-> lines]

\* a file whose first line names its columns
HeaderFile(name, header, lines) ==
    [name |-> name, readable |-> TRUE, header |-> header, lines |-> lines]

Line(pid, ts, mac, rssi, power) == <<pid, ts, "-", mac, rssi, power>>

\* the labels the loop gives the columns of a file
RawColumns == <<"pid", "timestamp", "column3", "mac_address", "rssi", "column6">>

\* df_temp.columns = ['pid', 'timestamp', 'column3', 'mac_address', 'rssi', 'column6']
NameColumns(line) ==
    [pid |-> line[1], timestamp |-> line[2], column3 |-> line[3],
     mac_address |-> line[4], rssi |-> line[5], column6 |-> line[6]]

\* pd.read_csv(file_path, header=None, ...) followed by the column naming,
\* on a file without a line of column names: every line is a record.
\* src/scripts/Merging_BLEdata.py passes no dtype and pandas infers the
\* types: the cells are the same as long as column6 holds no numeral (a
\* numeral would be read as a number), which is the case of the inputs here.
\* No file the loops read has a line of column names: in this model only
\* BLEdata2.csv has one, and neither loop selects a file of that name.
read_csv(file) == [i \in 1..Len(file.lines) |-> NameColumns(file.lines[i])]

\* the text of a float64 in a file; the lines of the model hold whole
\* numbers of dBm
FloatText(x) ==
    CASE IsNaN(x) -> NA
      [] x[2] = 1 -> ToString(x[1]) \o ".0"

\* the six fields of a line as the texts the file holds
FieldTexts(line) ==
    <<ToString(line[1]), line[2], line[3], line[4], FloatText(line[5]), line[6]>>

\* the dict counts of the header's name mangling: names seen -> count
CountOf(counts, name) == IF name \in DOMAIN counts THEN counts[name] ELSE 0
SetCount(counts, name, n) ==
    [x \in DOMAIN counts \cup {name} |-> IF x = name THEN n ELSE counts[x]]

RECURSIVE MangleLabel(_, _, _, _, _)
\* while cur_count > 0: counts[old_col] = cur_count + 1;
\* col = f"{old_col}.{cur_count}"; a candidate that is already a label of
\* the header is skipped (cur_count += 1), else cur_count = counts.get(col, 0)
MangleLabel(this_header, counts, old_col, col, cur_count) ==
    IF cur_count = 0 THEN [col |-> col, counts |-> counts]
    ELSE LET counted   == SetCount(counts, old_col, cur_count + 1)
             candidate == old_col \o "." \o ToString(cur_count)
         IN  IF candidate \in Range(this_header)
             THEN MangleLabel(this_header, counted, old_col, candidate, cur_count + 1)
             ELSE MangleLabel(this_header, counted, old_col, candidate,
                              CountOf(counted, candidate))

RECURSIVE DedupLabels(_, _, _)
\* the loop over col_loop_order: this_header[i] = col; counts[col] = 1
DedupLabels(this_header, col_loop_order, counts) ==
    IF col_loop_order = <<>> THEN this_header
    ELSE LET i == Head(col_loop_order)
             m == MangleLabel(this_header, counts, this_header[i], this_header[i],
                              CountOf(counts, this_header[i]))
         IN  DedupLabels([this_header EXCEPT ![i] = m.col], Tail(col_loop_order),
                         SetCount(m.counts, m.col, 1))

\* header inference on a line: an empty field is labelled 'Unnamed: k'
\* (k from 0); repeated labels are then mangled to .1, .2, ..., the given
\* names before the unnamed ones
InferredLabels(line) ==
    LET texts   == FieldTexts(line)
        named   == [k \in 1..Len(texts) |->
                    IF texts[k] = NA THEN "Unnamed: " \o ToString(k - 1) ELSE texts[k]]
        indices == [k \in 1..Len(texts) |-> k]
    IN  DedupLabels(named,
                    SelectSeq(indices, LAMBDA k : texts[k] # NA)
                        \o SelectSeq(indices, LAMBDA k : texts[k] = NA),
                    [x \in {} |-> 0])

\* a row of a frame: the cells of a line under the frame's labels
LabelCells(labels, line) ==
    [l \in Range(labels) |-> line[CHOOSE k \in 1..Len(labels) : labels[k] = l]]

\* pd.read_csv(existing_merged, dtype={'column3': str}, low_memory=False):
\* the first line of the file gives the labels (the line of column names
\* when the file has one, else its first line of fields) and only the
\* lines after it are rows; no column is renamed.  pandas infers the type
\* of every column but column3: the cells are the same as long as the
\* timestamp, mac_address and column6 fields of the rows are no numerals (a
\* numeral would be read as a number), which is the case of the inputs here.
read_csv_infer_header(file) ==
    LET labels == IF file.header # <<>> THEN file.header
                  ELSE InferredLabels(Head(file.lines))
        data   == IF file.header # <<>> THEN file.lines ELSE Tail(file.lines)
    IN  DataFrame(labels, [i \in 1..Len(data) |-> LabelCells(labels, data[i])])

\* src/scripts/Merging_BLEdata.py, transform_and_pivot_data:
\* df.rename(columns={'pid': 'user_id', 'rssi': 'RSSI', 'column6': 'power'}):
\* a label the frame lacks is skipped, every other label is kept
RenameLabel(label) ==
    CASE label = "pid"     -> "user_id"
      [] label = "rssi"    -> "RSSI"
      [] label = "column6" -> "power"
      [] OTHER             -> label

RenameColumns(columns) == [k \in 1..Len(columns) |-> RenameLabel(columns[k])]

\* a row under the renamed labels.  No frame of the model carries both the
\* old and the new name of a column.
RenameRow(r) ==
    [l \in {RenameLabel(x) : x \in DOMAIN r} |->
        r[CHOOSE x \in DOMAIN r : RenameLabel(x) = l]]

RECURSIVE ReadAll_stop(_)
\* a variant of ReadAll that gives up the loop at the first file that fails
ReadAll_stop(files) ==
    IF files = <<>> \/ ~Head(files).readable THEN <<>>
    ELSE <<read_csv(Head(files))>> \o ReadAll_stop(Tail(files))

RECURSIVE ReadAll(_)
\* the loop over csv_files: a file that fails to read is reported and skipped
ReadAll(files) ==
    IF files = <<>> THEN <<>>
    ELSE (IF Head(files).readable THEN <<read_csv(Head(files))>> ELSE <<>>)
         \o ReadAll(Tail(files))

\* if all_dfs: pd.concat(all_dfs, ignore_index=True) else: return None
ConcatOrNone(all_dfs) ==
    IF all_dfs # <<>> THEN DataFrame(RawColumns, Flatten(all_dfs)) ELSE None

\* src/Merging_BLEdata.py: the list comprehension selecting csv_files
FlagCsvFiles(all_files) ==
    SelectSeq(all_files, LAMBDA f : EndsWithCsv(f.name) /\ StartsWithRawPrefix(f.name))

\* src/scripts/Merging_BLEdata.py: the list comprehension selecting csv_files
PivotCsvFiles(all_files) ==
    SelectSeq(all_files, LAMBDA f : EndsWithCsv(f.name)
                  /\ f.name \notin {BLEdata_csv, BLEdata2_csv, BLEdata3_csv})

\* os.path.exists(existing_merged)
ExistingMerged(all_files) == SelectSeq(all_files, LAMBDA f : f.name = BLEdata2_csv)

---------------------------------------------------------------------------
(* Inputs *)

MAC_1       == BeaconMacs[1]
MAC_2       == BeaconMacs[2]
MAC_unknown == "00:00:00:00:00:00"

\* key family: user, timestamp and MAC vary
KeyLines == {Line(u, t, m, F(-60), "-") :
                u \in {1, 2}, t \in {T_A, T_B}, m \in {MAC_2, MAC_unknown}}

\* timestamp family: parsing, failing and missing timestamps, zone-naive
\* texts in one run and UTC texts in another
TimeLines(t_ok) == {Line(1, t, m, F(-60), "-") :
                t \in {t_ok, T_bad, NA}, m \in {MAC_1, MAC_unknown}}

\* value family: one group, signal strengths vary and may be missing
ValueLines == {Line(1, T_A, m, r, "-") :
                m \in {MAC_1, MAC_2}, r \in {F(-60), F(-55), NaN}}
              \cup {Line(1, T_A, MAC_unknown, F(-60), "-")}

\* representative family: one group, MAC and power vary and may be missing
FirstLines == {Line(1, T_A, m, F(-60), p) :
                m \in {MAC_1, MAC_unknown, NA}, p \in {"low", NA}}
              \cup {Line(1, T_A, MAC_1, F(-60), "high")}

\* a table of lines laid out in raw export files: the first line in one
\* file, the others in a second one listed after it
DirOfLines(lines) ==
    IF Len(lines) <= 1 THEN <<File(RawName1, TRUE, lines)>>
    ELSE <<File(RawName1, TRUE, <<Head(lines)>>), File(RawName2, TRUE, Tail(lines))>>

TableDirs ==
    {DirOfLines(ls) : ls \in SeqsOf(KeyLines, 1, MaxRows)}
    \cup {DirOfLines(ls) : ls \in SeqsOf(TimeLines(T_A), 1, MaxTimeRows)}
    \cup {DirOfLines(ls) : ls \in SeqsOf(TimeLines(T_A_utc), 1, MaxTimeRows)}
    \cup {DirOfLines(ls) : ls \in SeqsOf(ValueLines, 1, MaxValueRows)}
    \cup {DirOfLines(ls) : ls \in SeqsOf(FirstLines, 1, MaxFirstRows)}

\* loader family: up to MaxFiles files with distinct names, each either
\* holding one of two one-line contents or failing to read (an empty file).
\* BLEdata2.csv, the one file read with header inference, comes with and
\* without a line of column names (the loader's names or the names the
\* transformer gives the columns), also with two lines of fields, and,
\* without a line of column names, with a first line one field of which is
\* the mangled form of another.
LoaderNames == {RawName1, RawName2, BLEdata_csv, BLEdata2_csv, BLEdata3_csv,
                ScanName, TextName}
LoaderContents == {<<Line(1, T_A, MAC_1, F(-60), "-")>>,
                   <<Line(2, T_B, MAC_unknown, F(-55), "-")>>}
MergedContents == LoaderContents
                  \cup {<<Line(1, T_A, MAC_1, F(-60), "-"), Line(2, T_B, MAC_2, F(-55), "-")>>}
\* a line with a repeated field ("high") and a field that is the first
\* mangled form of it ("high.1")
MangledContents == {<<Line(1, "high.1", "high", F(-60), "high")>>}
RenamedColumns == RenameColumns(RawColumns)
LoaderFiles == {File(n, TRUE, c) : n \in LoaderNames, c \in LoaderContents}
               \cup {File(n, FALSE, <<>>) : n \in LoaderNames}
               \cup {HeaderFile(BLEdata2_csv, h, c) :
                        h \in {RawColumns, RenamedColumns}, c \in MergedContents}
               \cup {File(BLEdata2_csv, TRUE, c) : c \in MergedContents \cup MangledContents}
LoaderDirs ==
    {d \in SeqsOf(LoaderFiles, 0, MaxFiles) :
        \A i, j \in 1..Len(d) : i # j => d[i].name # d[j].name}

Init ==
    /\ variant \in {"flag", "pivot"}
    /\ dataset_directory \in TableDirs \cup LoaderDirs
    /\ pc = "start"
    /\ files_read = <<>>
    /\ df_merged = None
    /\ df = None
    /\ output_file = None

---------------------------------------------------------------------------
(* Step 1: merge_individual_csv_files *)

\* src/Merging_BLEdata.py
merge_individual_csv_files_flag(all_files) ==
    ConcatOrNone(ReadAll(FlagCsvFiles(all_files)))

\* src/scripts/Merging_BLEdata.py, when BLEdata2.csv does not exist or can
\* be read
merge_individual_csv_files_pivot(all_files) ==
    IF ExistingMerged(all_files) # <<>>
    THEN read_csv_infer_header(Head(ExistingMerged(all_files)))
    ELSE ConcatOrNone(ReadAll(PivotCsvFiles(all_files)))

\* src/scripts/Merging_BLEdata.py: pd.read_csv(existing_merged, ...) is
\* outside any try; it raises on a file it cannot read, a file without any
\* line included
MergeRaises(all_files) ==
    /\ ExistingMerged(all_files) # <<>>
    /\ LET file == Head(ExistingMerged(all_files))
       IN  ~file.readable \/ (file.header = <<>> /\ file.lines = <<>>)

NamesOf(files) == [i \in 1..Len(files) |-> files[i].name]

\* src/Merging_BLEdata.py: pd.read_csv is called on every selected file
FilesReadFlag(all_files) == NamesOf(FlagCsvFiles(all_files))

\* src/scripts/Merging_BLEdata.py: on BLEdata2.csv alone when it exists,
\* else on every selected file
FilesReadPivot(all_files) ==
    IF ExistingMerged(all_files) # <<>> THEN NamesOf(ExistingMerged(all_files))
    ELSE NamesOf(PivotCsvFiles(all_files))

MergeFlag ==
    /\ pc = "start"
    /\ variant = "flag"
    /\ files_read' = FilesReadFlag(dataset_directory)
    /\ df_merged' = merge_individual_csv_files_flag(dataset_directory)
    /\ pc' = "merged"
    /\ UNCHANGED <<variant, dataset_directory, df, output_file>>

MergePivot ==
    /\ pc = "start"
    /\ variant = "pivot"
    /\ ~MergeRaises(dataset_directory)
    /\ files_read' = FilesReadPivot(dataset_directory)
    /\ df_merged' = merge_individual_csv_files_pivot(dataset_directory)
    /\ pc' = "merged"
    /\ UNCHANGED <<variant, dataset_directory, df, output_file>>

MergePivotRaises ==
    /\ pc = "start"
    /\ variant = "pivot"
    /\ MergeRaises(dataset_directory)
    /\ files_read' = FilesReadPivot(dataset_directory)
    /\ pc' = "raised"
    /\ UNCHANGED <<variant, dataset_directory, df_merged, df, output_file>>

\* main: if df is None: print(...); return
MainNoData ==
    /\ pc = "merged"
    /\ df_merged = None
    /\ pc' = "returned"
    /\ UNCHANGED <<variant, dataset_directory, files_read, df_merged, df, output_file>>

---------------------------------------------------------------------------
(* Step 2, src/Merging_BLEdata.py: transform_and_flag_data *)

\* a variant of FlagCells that compares with >= in place of ==
FlagCells_ge(rssi_target_col) ==
    [col \in rssi_cols |-> IF rssi_target_col >= col THEN 1 ELSE 0]

\* for col in rssi_cols: df[col] = 0, then
\* df.loc[df['rssi_target_col'] == col, col] = 1
FlagCells(rssi_target_col) ==
    [col \in rssi_cols |-> IF rssi_target_col = col THEN 1 ELSE 0]

\* one row after the timestamp conversion, the derived columns, the rename
\* and the flags; the final column selection leaves column3 out
FlagRow(r, mac_to_rssi_column) ==
    LET dt == tz_localize_none(to_datetime_coerce(r.timestamp))
    IN  [user_id        |-> r.pid,
         timestamp      |-> dt,
         mac_address    |-> r.mac_address,
         RSSI           |-> r.rssi,
         power          |-> r.column6,
         year_month_day |-> strftime_ymd(dt),
         hour           |-> dt_hour(dt),
         rssi_cols      |-> FlagCells(MapMac(mac_to_rssi_column, r.mac_address))]

\* a variant of InsertStable that places a row before the rows of equal key
InsertUnstable(sorted, r) ==
    LET k == Cardinality({i \in 1..Len(sorted) : KeyLess(sorted[i], r)})
    IN  SubSeq(sorted, 1, k) \o <<r>> \o SubSeq(sorted, k + 1, Len(sorted))

\* a stable sort places each row after the rows already placed whose key
\* is not greater than its own
InsertStable(sorted, r) ==
    LET k == Cardinality({i \in 1..Len(sorted) : ~KeyLess(r, sorted[i])})
    IN  SubSeq(sorted, 1, k) \o <<r>> \o SubSeq(sorted, k + 1, Len(sorted))

RECURSIVE SortPrefix(_, _)
SortPrefix(rows, n) ==
    IF n = 0 THEN <<>> ELSE InsertStable(SortPrefix(rows, n - 1), rows[n])

\* a variant of sort_values that also drops the later rows of a repeated
\* (user_id, timestamp) key
sort_values_dedup(rows) ==
    LET first == SelectSeq([i \in 1..Len(rows) |-> [i |-> i, r |-> rows[i]]],
                     LAMBDA e : \A j \in 1..(e.i - 1) :
                         KeyLess(rows[j], e.r) \/ KeyLess(e.r, rows[j]))
        kept  == [k \in 1..Len(first) |-> first[k].r]
    IN  SortPrefix(kept, Len(kept))

\* df.sort_values(by=['user_id', 'timestamp'], kind='mergesort')
\*   .reset_index(drop=True)
sort_values(rows) == SortPrefix(rows, Len(rows))

\* columns_order = ['user_id', 'timestamp', 'mac_address', 'RSSI', 'power',
\*                  'year_month_day', 'hour'] + rssi_cols
columns_order ==
    <<"user_id", "timestamp", "mac_address", "RSSI", "power", "year_month_day", "hour">>
    \o [i \in 1..NumBeacons |-> "RSSI_" \o ToString(i)]

transform_and_flag_data(frame, mac_to_rssi_column) ==
    DataFrame(columns_order, sort_values(
        [i \in 1..Len(frame.rows) |-> FlagRow(frame.rows[i], mac_to_rssi_column)]))

TransformFlag ==
    /\ pc = "merged"
    /\ variant = "flag"
    /\ df_merged # None
    /\ df' = transform_and_flag_data(df_merged, setup_beacon_dictionary)
    /\ pc' = "transformed"
    /\ UNCHANGED <<variant, dataset_directory, files_read, df_merged, output_file>>

---------------------------------------------------------------------------
(* Step 2, src/scripts/Merging_BLEdata.py: transform_and_pivot_data *)

\* one row after the timestamp conversion, the derived columns (taken
\* before the zone is removed), the rename and the rssi_column mapping
PivotPrepared(r, mac_to_rssi_column) ==
    LET dt == to_datetime_raise(r.timestamp)
        q  == RenameRow(r)
    IN  [user_id        |-> q.user_id,
         timestamp      |-> tz_localize_none(dt),
         mac_address    |-> q.mac_address,
         RSSI           |-> q.RSSI,
         power          |-> q.power,
         year_month_day |-> strftime_ymd(dt),
         hour           |-> dt_hour(dt),
         rssi_column    |-> MapMac(mac_to_rssi_column, q.mac_address)]

\* a variant of HasPivotKeys that keeps the rows without an rssi_column
HasPivotKeys_unmapped(p) == p.timestamp # NaT

\* pivot_table groups by index + columns with dropna=True: a row with a
\* missing key (NaT timestamp, and with it date and hour; no rssi_column)
\* is in no group
HasPivotKeys(p) == p.timestamp # NaT /\ p.rssi_column # NoColumn

IndexOf(p) ==
    [user_id |-> p.user_id, timestamp |-> p.timestamp,
     year_month_day |-> p.year_month_day, hour |-> p.hour]

\* aggfunc='mean' over the RSSI values of one group
PivotAgg(values) == NanMean(values)

\* the mean of one (index, column) group; NaN when the group is empty or
\* holds no value
PivotCell(prepared, idx, col) ==
    LET members == SelectSeq(prepared,
                       LAMBDA p : HasPivotKeys(p) /\ IndexOf(p) = idx /\ p.rssi_column = col)
    IN  PivotAgg([i \in 1..Len(members) |-> members[i].RSSI])

\* agged.dropna(how='all') and unstack: the index entries left are those
\* with a value in at least one column
PivotIndex(prepared) ==
    {IndexOf(prepared[i]) : i \in {j \in 1..Len(prepared) :
        /\ HasPivotKeys(prepared[j])
        /\ ~IsNaN(PivotCell(prepared, IndexOf(prepared[j]), prepared[j].rssi_column))}}

RECURSIVE SortedIndex(_)
\* the groupby sorts its keys: index entries in ascending order
SortedIndex(S) ==
    IF S = {} THEN <<>>
    ELSE LET m == CHOOSE x \in S : \A y \in S : ~KeyLess(y, x)
         IN  <<m>> \o SortedIndex(S \ {m})

\* GroupBy 'first': the first value of the column that is not missing
FirstValid(values) ==
    LET present == SelectSeq(values, LAMBDA v : v # NA)
    IN  IF present = <<>> THEN NA ELSE Head(present)

\* df.groupby(['user_id', 'timestamp']).agg({'mac_address': 'first',
\* 'power': 'first'}) for one key
first_values(prepared, user_id, timestamp) ==
    LET members == SelectSeq(prepared,
                       LAMBDA p : p.user_id = user_id /\ p.timestamp = timestamp)
    IN  [mac_address |-> FirstValid([i \in 1..Len(members) |-> members[i].mac_address]),
         power       |-> FirstValid([i \in 1..Len(members) |-> members[i].power])]

\* a variant of RowMean taken over the 0/1 flags in place of the averages
RowMean_of_flags(cells) ==
    Frac(Cardinality({col \in rssi_cols : ~IsNaN(cells[col])}), NumBeacons)

\* df_result[rssi_cols].mean(axis=1, skipna=True)
RowMean(cells) == NanMean([col \in 1..NumBeacons |-> cells[col]])

\* one row of df_result: the pivot's cells (a column the pivot lacks is
\* added as NaN), the merged first values and the row mean
PivotRow(prepared, idx) ==
    LET cells == [col \in rssi_cols |-> PivotCell(prepared, idx, col)]
        fv    == first_values(prepared, idx.user_id, idx.timestamp)
    IN  [user_id        |-> idx.user_id,
         timestamp      |-> idx.timestamp,
         mac_address    |-> fv.mac_address,
         RSSI           |-> RowMean(cells),
         power          |-> fv.power,
         year_month_day |-> idx.year_month_day,
         hour           |-> idx.hour,
         rssi_cols      |-> cells]

transform_and_pivot_data(frame, mac_to_rssi_column) ==
    LET prepared == [i \in 1..Len(frame.rows) |->
                        PivotPrepared(frame.rows[i], mac_to_rssi_column)]
        index    == SortedIndex(PivotIndex(prepared))
    IN  DataFrame(columns_order,
                  [k \in 1..Len(index) |-> PivotRow(prepared, index[k])])

\* the labels transform_and_pivot_data looks up: df['timestamp'] before
\* the rename and, after it, df['mac_address'], the pivot's index
\* 'user_id' and 'timestamp', its values 'RSSI' and the aggregated 'power'
PivotLookups == {"timestamp", "mac_address", "user_id", "RSSI", "power"}

\* a label the frame lacks raises KeyError ('timestamp' is no target of
\* the rename: it is in the frame before the rename iff it is after it)
RaisesKeyError(frame) == ~(PivotLookups \subseteq Range(RenameColumns(frame.columns)))

\* the transformer raises on a missing label; pd.to_datetime(
\* df['timestamp'], format='mixed') raises on a text that does not parse
TransformRaises(frame) ==
    IF RaisesKeyError(frame) THEN TRUE
    ELSE RaisesOnParse([i \in 1..Len(frame.rows) |-> frame.rows[i].timestamp])

TransformPivot ==
    /\ pc = "merged"
    /\ variant = "pivot"
    /\ df_merged # None
    /\ ~TransformRaises(df_merged)
    /\ df' = transform_and_pivot_data(df_merged, setup_beacon_dictionary)
    /\ pc' = "transformed"
    /\ UNCHANGED <<variant, dataset_directory, files_read, df_merged, output_file>>

TransformPivotRaises ==
    /\ pc = "merged"
    /\ variant = "pivot"
    /\ df_merged # None
    /\ TransformRaises(df_merged)
    /\ pc' = "raised"
    /\ UNCHANGED <<variant, dataset_directory, files_read, df_merged, df, output_file>>

---------------------------------------------------------------------------
(* Step 3: convert_rssi_to_binary *)

\* src/Merging_BLEdata.py: returns df as it is
convert_rssi_to_binary_flag(frame) == frame

ConvertFlag ==
    /\ pc = "transformed"
    /\ variant = "flag"
    /\ df' = convert_rssi_to_binary_flag(df)
    /\ pc' = "binary"
    /\ UNCHANGED <<variant, dataset_directory, files_read, df_merged, output_file>>

\* a variant of notna_int that tests isna
isna_int(x) == IF IsNaN(x) THEN 1 ELSE 0

\* src/scripts/Merging_BLEdata.py: df[col] = df[col].notna().astype(int)
notna_int(x) == IF IsNaN(x) THEN 0 ELSE 1

convert_rssi_to_binary_pivot(frame) ==
    DataFrame(frame.columns, [i \in 1..Len(frame.rows) |->
        [frame.rows[i] EXCEPT !.rssi_cols =
            [col \in rssi_cols |-> notna_int(frame.rows[i].rssi_cols[col])]]])

ConvertPivot ==
    /\ pc = "transformed"
    /\ variant = "pivot"
    /\ df' = convert_rssi_to_binary_pivot(df)
    /\ pc' = "binary"
    /\ UNCHANGED <<variant, dataset_directory, files_read, df_merged, output_file>>

---------------------------------------------------------------------------
(* Step 4 and the summary *)

\* df.to_csv(output_path, index=False): every row, in order
save_output(frame) == frame

SaveOutput ==
    /\ pc = "binary"
    /\ output_file' = save_output(df)
    /\ pc' = "saved"
    /\ UNCHANGED <<variant, dataset_directory, files_read, df_merged, df>>

\* display_summary only prints
DisplaySummary ==
    /\ pc = "saved"
    /\ pc' = "done"
    /\ UNCHANGED <<variant, dataset_directory, files_read, df_merged, df, output_file>>

Next ==
    \/ MergeFlag \/ MergePivot \/ MergePivotRaises \/ MainNoData
    \/ TransformFlag \/ ConvertFlag
    \/ TransformPivot \/ TransformPivotRaises \/ ConvertPivot
    \/ SaveOutput \/ DisplaySummary

Spec == Init /\ [][Next]_vars

---------------------------------------------------------------------------
(* Properties *)

\* the loader's records (the rows of its table, read under the loader's
\* column names, when the table has the columns the transformer looks up)
\* and the table main holds after the transformer
RawLabel(label) ==
    CASE label = "user_id" -> "pid"
      [] label = "RSSI"    -> "rssi"
      [] label = "power"   -> "column6"
      [] OTHER             -> label
RawRecord(r) ==
    [l \in {RawLabel(x) : x \in DOMAIN r} |-> r[CHOOSE x \in DOMAIN r : RawLabel(x) = l]]
Input  == IF df_merged.columns = RawColumns THEN df_merged.rows
          ELSE IF RaisesKeyError(df_merged) THEN <<>>
          ELSE [i \in 1..Len(df_merged.rows) |-> RawRecord(df_merged.rows[i])]
Output == df.rows

Transformed == pc \in {"transformed", "binary", "saved", "done"}
Binarized   == pc \in {"binary", "saved", "done"}
FlagDone    == variant = "flag" /\ Transformed
PivotDone   == variant = "pivot" /\ Binarized

Perms(n) == {p \in [1..n -> 1..n] : \A i, j \in 1..n : i # j => p[i] # p[j]}

\* the output row o carries the fields of the input record r
SameRecord(r, o) ==
    /\ o.user_id = r.pid
    /\ o.mac_address = r.mac_address
    /\ o.RSSI = r.rssi
    /\ o.power = r.column6

SameKey(a, b) == ~KeyLess(a, b) /\ ~KeyLess(b, a)

IsBeacon(mac) == \E c \in rssi_cols : BeaconMacs[c] = mac

FlagsSet(o) == {c \in rssi_cols : o.rssi_cols[c] = 1}

(* C1: flag-append mode: the output row produced from an input record has
   exactly one of the 25 flags equal to 1, the flag of the slot the registry
   gives the record's MAC address, when that address is a registry key, and
   all 25 flags equal to 0 when it is not. *)
C1_FlagOneHot ==
    FlagDone =>
        /\ Len(Output) = Len(Input)
        /\ \E p \in Perms(Len(Input)) : \A i \in 1..Len(Input) :
            LET r == Input[i]
                o == Output[p[i]]
            IN  /\ SameRecord(r, o)
                /\ \A c \in rssi_cols : o.rssi_cols[c] \in {0, 1}
                /\ IF IsBeacon(r.mac_address)
                   THEN /\ Cardinality(FlagsSet(o)) = 1
                        /\ \A c \in FlagsSet(o) : BeaconMacs[c] = r.mac_address
                   ELSE FlagsSet(o) = {}

\* a table with a row of beacon 2 flagged in column 2 alone and a row of an
\* unknown MAC with no flag
C1_Witness ==
    /\ FlagDone
    /\ \E i, j \in 1..Len(Output) :
        /\ Output[i].mac_address = MAC_2 /\ FlagsSet(Output[i]) = {2}
        /\ Output[j].mac_address = MAC_unknown /\ FlagsSet(Output[j]) = {}

(* C2: flag-append mode: the output has as many rows as the input and its
   rows are a rearrangement of the input records (same user_id, mac_address,
   signal strength and power); no row is dropped or merged, whether its key
   repeats, its MAC is unknown or its timestamp did not parse. *)
C2_FlagKeepsRows ==
    FlagDone =>
        /\ Len(Output) = Len(Input)
        /\ \E p \in Perms(Len(Input)) : \A i \in 1..Len(Input) :
            SameRecord(Input[i], Output[p[i]])

\* three input records, two of them with one user and the same timestamp
\* text that does not parse, one with an unknown MAC: three output rows
C2_Witness ==
    /\ FlagDone
    /\ Len(Input) = 3
    /\ Len(Output) = 3
    /\ \E i, j \in 1..3 :
        /\ i # j
        /\ Input[i].pid = Input[j].pid
        /\ Input[i].timestamp = T_bad /\ Input[j].timestamp = T_bad
    /\ \E k \in 1..3 : Input[k].mac_address = MAC_unknown
    /\ Cardinality({k \in 1..3 : Output[k].timestamp = NaT}) >= 2

(* C3: flag-append mode: the output rows are in non-decreasing order of
   (user_id, normalized timestamp), and rows that share a key keep the
   relative order they had in the loader's concatenated input. *)
C3_FlagStableSort ==
    FlagDone =>
        /\ \A i, j \in 1..Len(Output) : i < j => ~KeyLess(Output[j], Output[i])
        /\ Len(Output) = Len(Input)
        /\ \E p \in Perms(Len(Input)) :
            /\ \A i \in 1..Len(Input) :
                Output[p[i]] = FlagRow(Input[i], setup_beacon_dictionary)
            /\ \A i, j \in 1..Len(Input) :
                (i < j /\ SameKey(Output[p[i]], Output[p[j]])) => p[i] < p[j]

\* an output in which two different rows share a key, reached from an input
\* that the sort had to reorder
C3_Witness ==
    /\ FlagDone
    /\ \E i, j \in 1..Len(Output) :
        i < j /\ SameKey(Output[i], Output[j]) /\ Output[i] # Output[j]
    /\ \E i \in 1..Len(Input) :
        Output[i] # FlagRow(Input[i], setup_beacon_dictionary)

---------------------------------------------------------------------------
(* Pivot mode *)

\* the timestamp a text is grouped under
Normalized(text) == tz_localize_none(to_datetime_coerce(text))

\* the input records of the (user_id, timestamp) group of key <<u, t>>
Group(u, t) == {i \in 1..Len(Input) : Input[i].pid = u /\ Normalized(Input[i].timestamp) = t}

GroupOf(o) == Group(o.user_id, o.timestamp)

HasValue(r) == ~IsNaN(r.rssi)

\* the output rows of key <<u, t>>
RowsOf(u, t) == {k \in 1..Len(Output) : Output[k].user_id = u /\ Output[k].timestamp = t}

(* C4 as stated: pivot mode: in every output row, flag RSSI_i is 1 exactly
   when some input record of the row's group has the MAC address of slot i,
   so the flags of the row add up to the number of distinct known beacons
   among the group's records. *)
C4_AsStated ==
    PivotDone =>
        \A k \in 1..Len(Output) :
            LET o == Output[k]
            IN  /\ \A c \in rssi_cols :
                    o.rssi_cols[c] = 1 <=>
                        \E i \in GroupOf(o) : Input[i].mac_address = BeaconMacs[c]
                /\ Cardinality(FlagsSet(o)) =
                    Cardinality({Input[i].mac_address : i \in
                        {j \in GroupOf(o) : IsBeacon(Input[j].mac_address)}})

(* C4 as amended: pivot mode: in every output row, flag RSSI_i is 1 exactly
   when some input record of the row's group has the MAC address of slot i
   and a signal strength value, and is 0 otherwise; the flags of the row add
   up to the number of distinct known beacons with such a record. *)
C4_FlagIffValue ==
    PivotDone =>
        \A k \in 1..Len(Output) :
            LET o == Output[k]
            IN  /\ \A c \in rssi_cols :
                    /\ o.rssi_cols[c] \in {0, 1}
                    /\ o.rssi_cols[c] = 1 <=>
                        \E i \in GroupOf(o) :
                            Input[i].mac_address = BeaconMacs[c] /\ HasValue(Input[i])
                /\ Cardinality(FlagsSet(o)) =
                    Cardinality({Input[i].mac_address : i \in
                        {j \in GroupOf(o) :
                            IsBeacon(Input[j].mac_address) /\ HasValue(Input[j])}})

\* a row flagged for beacon 1 alone whose group also holds a record of
\* beacon 2 without a signal strength and a record of an unknown MAC
C4_Witness ==
    /\ PivotDone
    /\ \E k \in 1..Len(Output) :
        /\ FlagsSet(Output[k]) = {1}
        /\ \E i, j \in GroupOf(Output[k]) :
            /\ Input[i].mac_address = MAC_2 /\ ~HasValue(Input[i])
            /\ Input[j].mac_address = MAC_unknown

(* C5 as stated: pivot mode: a group with at least one input record (here:
   with a parsed timestamp, every record carrying a MAC address) and no
   record of a known beacon appears in the output as one row whose 25 flags
   are all 0. *)
C5_AsStated ==
    PivotDone =>
        \A i \in 1..Len(Input) :
            LET u == Input[i].pid
                t == Normalized(Input[i].timestamp)
            IN  (t # NaT /\ \A j \in Group(u, t) :
                    Input[j].mac_address # NA /\ ~IsBeacon(Input[j].mac_address)) =>
                    /\ Cardinality(RowsOf(u, t)) = 1
                    /\ \A k \in RowsOf(u, t) : FlagsSet(Output[k]) = {}

(* C5 as amended: pivot mode: a group appears in the output, as exactly one
   row, when it has a record of a known beacon with a signal strength, and
   does not appear at all when it has none; every output row has at least
   one of its 25 flags equal to 1. *)
C5_NoRowWithoutBeacon ==
    PivotDone =>
        /\ \A k \in 1..Len(Output) : FlagsSet(Output[k]) # {}
        /\ \A i \in 1..Len(Input) :
            LET u == Input[i].pid
                t == Normalized(Input[i].timestamp)
            IN  IF t # NaT /\ \E j \in Group(u, t) :
                                IsBeacon(Input[j].mac_address) /\ HasValue(Input[j])
                THEN Cardinality(RowsOf(u, t)) = 1
                ELSE RowsOf(u, t) = {}

\* an input with a group of unknown MACs only and a group with a known
\* beacon: the output has the second group's row and none for the first
C5_Witness ==
    /\ PivotDone
    /\ Len(Output) = 1
    /\ \E i \in 1..Len(Input) :
        /\ Normalized(Input[i].timestamp) # NaT
        /\ \A j \in Group(Input[i].pid, Normalized(Input[i].timestamp)) :
            Input[j].mac_address = MAC_unknown
        /\ RowsOf(Input[i].pid, Normalized(Input[i].timestamp)) = {}

\* the signal strengths present among the group's records of slot c
SlotValues(o, c) ==
    LET recs == SelectSeq(Input, LAMBDA r : /\ r.pid = o.user_id
                                            /\ Normalized(r.timestamp) = o.timestamp
                                            /\ r.mac_address = BeaconMacs[c]
                                            /\ HasValue(r))
    IN  [i \in 1..Len(recs) |-> recs[i].rssi]

ObservedSlots(o) == {c \in rssi_cols : SlotValues(o, c) # <<>>}

RECURSIVE SumOfSlotMeans(_, _)
\* the sum over the observed slots 1..c of the slot's arithmetic mean
SumOfSlotMeans(o, c) ==
    IF c = 0 THEN F(0)
    ELSE LET vals == SlotValues(o, c)
             mean == Frac(FracSum(vals)[1], FracSum(vals)[2] * Len(vals))
         IN  IF vals = <<>> THEN SumOfSlotMeans(o, c - 1)
             ELSE FracAdd(SumOfSlotMeans(o, c - 1), mean)

(* C6: pivot mode: the signal_strength of each output row is the mean, over
   the beacon slots observed in the group, of the slot's average signal
   strength (the arithmetic mean of the signal strengths of the group's
   records of that slot); absent slots are ignored, and the value stays the
   one computed from the averages after they become 0/1 flags. *)
C6_MeanOfSlotMeans ==
    (variant = "pivot" /\ Transformed) =>
        \A k \in 1..Len(Output) :
            LET o     == Output[k]
                total == SumOfSlotMeans(o, NumBeacons)
            IN  /\ ObservedSlots(o) # {}
                /\ o.RSSI = Frac(total[1], total[2] * Cardinality(ObservedSlots(o)))

\* readings -60 and -55 on beacon 1 and -55 on beacon 2 in one group: the
\* row's value is (-57.5 + -55) / 2 = -56.25 and both flags are set
C6_Witness ==
    /\ PivotDone
    /\ \E k \in 1..Len(Output) :
        /\ Output[k].RSSI = <<-225, 4>>
        /\ FlagsSet(Output[k]) = {1, 2}
        /\ Len(SlotValues(Output[k], 1)) = 2

\* the first record of the row's group in loader order
FirstOf(o) == Input[CHOOSE i \in GroupOf(o) : \A j \in GroupOf(o) : i <= j]

(* C7: pivot mode: in every output row, mac_address and power are those of
   the first record, in loader order, of the row's group, known beacon or
   not; both values come from that one record. *)
C7_AsStated ==
    PivotDone =>
        \A k \in 1..Len(Output) :
            /\ Output[k].mac_address = FirstOf(Output[k]).mac_address
            /\ Output[k].power = FirstOf(Output[k]).column6

---------------------------------------------------------------------------
(* Unparseable timestamps *)

Unparseable(text) == text # NA /\ ~Parses(text)

(* C8: in both modes a record whose timestamp text fails to parse does not
   abort the run: the run does not end in an exception, and once the
   transformer has returned, its output holds a row of the record's user
   whose timestamp is the unparseable marker. *)
C8_AsStated ==
    \A i \in 1..Len(Input) :
        Unparseable(Input[i].timestamp) =>
            /\ pc # "raised"
            /\ Transformed =>
                \E k \in 1..Len(Output) :
                    Output[k].timestamp = NaT /\ Output[k].user_id = Input[i].pid

---------------------------------------------------------------------------
(* Loader *)

Merged == pc # "start"

\* the files of the directory the flag variant's name filter selects, and
\* those among them that parse
Matching == {i \in 1..Len(dataset_directory) :
                /\ dataset_directory[i].name.ext = ".csv"
                /\ dataset_directory[i].name.prefix = "user-ble-id_"}
ParsedMatching == {i \in Matching : dataset_directory[i].readable}

RECURSIVE RecordsFrom(_, _)
\* the records of the files of S, file by file in listing order from file i on
RecordsFrom(S, i) ==
    IF i > Len(dataset_directory) THEN <<>>
    ELSE (IF i \in S
          THEN [k \in 1..Len(dataset_directory[i].lines) |->
                    NameColumns(dataset_directory[i].lines[k])]
          ELSE <<>>) \o RecordsFrom(S, i + 1)

RECURSIVE NamesFrom(_, _)
NamesFrom(S, i) ==
    IF i > Len(dataset_directory) THEN <<>>
    ELSE (IF i \in S THEN <<dataset_directory[i].name>> ELSE <<>>) \o NamesFrom(S, i + 1)

(* C9: loader of src/Merging_BLEdata.py: a file that fails to read never
   aborts the batch: every matching file is read in listing order, the
   result is the concatenation, in that order and without deduplication, of
   the records of exactly the files that parsed, and it is None only when
   no matching file parsed; main then runs neither the transformer nor the
   writer and writes no output. *)
C9_LoaderSkipsBadFiles ==
    (variant = "flag" /\ Merged) =>
        /\ pc # "raised"
        /\ files_read = NamesFrom(Matching, 1)
        /\ IF ParsedMatching = {}
           THEN /\ df_merged = None
                /\ pc \in {"merged", "returned"}
                /\ df = None
                /\ output_file = None
           ELSE /\ df_merged # None
                /\ Input = RecordsFrom(ParsedMatching, 1)

\* two matching files, the first failing to read, the second read: the
\* result holds the second file's records and the run goes on to save them
C9_Witness ==
    /\ variant = "flag"
    /\ pc = "saved"
    /\ Cardinality(Matching) = 2
    /\ \E i, j \in Matching : i < j /\ i \notin ParsedMatching /\ j \in ParsedMatching
    /\ Len(Input) = 1
    /\ output_file # None

OutputNames == {BLEdata_csv, BLEdata2_csv, BLEdata3_csv}

(* C10: in both variants the loader never reads a previously produced
   merged/output file (BLEdata.csv, BLEdata2.csv, BLEdata3.csv) of the
   source directory: the records come only from the other files. *)
C10_AsStated ==
    \A k \in 1..Len(files_read) : files_read[k] \notin OutputNames

====
